---- MODULE Spec2Model ----
(***************************************************************************)
(* SkyWatch Radar: the aircraft store (AircraftManager), its trail         *)
(* tracker and its filter engine, as written in src/src/js/aircraft.js,    *)
(* the parser, the classifier and the rate limit of src/src/js/api.js, the *)
(* poller (App) of src/src/js/config.js, and the handlers of the filter    *)
(* panel in src/unnamed/part_003.                                          *)
(*                                                                         *)
(* Units.  Time is in milliseconds, as Date.now() gives it.  Latitude and  *)
(* longitude are in micro-degrees.  Distances are in millimetres.          *)
(* Strings that the code inspects character by character (icao24,          *)
(* callsign, searchQuery) are sequences of one-character strings.          *)
(***************************************************************************)
EXTENDS Integers, Sequences, FiniteSets, TLC

VARIABLES
    aircraftMap,        \* Map icao24 -> aircraft, in insertion order
    filteredAircraft,   \* the filtered view: references (icao24) to stored objects
    selectedAircraft,   \* <<>> (null / undefined) or <<icao24>> of the selected object
    filters,            \* the filter state
    trails,             \* CONFIG.features.trails
    now,                \* Date.now()
    ticks,              \* how many times the clock has advanced (bounds the model)
    call,               \* history: the operation that produced this state, and its input
    prev,               \* history: aircraftMap before that operation
    everInserted,       \* history: the ids stored since the store was last cleared, in the
                        \* order of their first insertion
    prevSelected,       \* history: selectedAircraft before that operation
    lastRequestTime,    \* API: Date.now() when the last response arrived
    updateInterval,     \* App: <<>> (null) or <<id>>, the handle that setInterval returned
    timers,             \* the interval timers that are set: [id, at], `at` the next firing
    isLiveMode,         \* App
    isInitialized,      \* App
    hidden,             \* document.hidden
    online,             \* navigator.onLine
    requests,           \* the fetches in flight, each with the time it was started
    toast,              \* the toast shown by the last operation, "none" when it showed none
    issued,             \* history: the times at which the fetches were started
    fetched             \* history: the last response that arrived, and when its fetch
                        \* was started

\* the state of the poller and of its environment
appVars == <<lastRequestTime, updateInterval, timers, isLiveMode, isInitialized, hidden, online,
             requests, toast, issued, fetched>>

vars == <<aircraftMap, filteredAircraft, selectedAircraft, filters, trails, now, ticks,
          call, prev, everInserted, prevSelected, appVars>>

-----------------------------------------------------------------------------
(* Program constants *)

\* JavaScript's null, for the nullable number `altitude`
Null == -999999

\* const timeout = 120000
timeout == 120000

\* CONFIG.aircraft.display.trailMaxPoints
trailMaxPoints == 100

\* CONFIG.aircraft.display.trailDuration
trailDuration == 600000

\* CONFIG.api.opensky.rateLimit.minInterval
minInterval == 10000

\* CONFIG.intervals.liveUpdate
liveUpdate == 10000

\* CONFIG.dataQuality: knots and feet
dataQuality == [minSpeed |-> 30, maxSpeed |-> 700,
                minAltitude |-> 0 - 1000, maxAltitude |-> 60000]

\* "state.length < 17"
stateLength == 17

\* "Skip if moved less than 100 meters": distance < 0.1 (km), here in mm
minTrailDistance == 100000

\* R * (PI / 180): 6371 km * 0.0174532925 = 111.195 km per degree, which is
\* 111195 micrometres per micro-degree
umPerMicroDegree == 111195

-----------------------------------------------------------------------------
(* Strings *)

UpperChars == <<"A","B","C","D","E","F","G","H","I","J","K","L","M",
                "N","O","P","Q","R","S","T","U","V","W","X","Y","Z">>
LowerChars == <<"a","b","c","d","e","f","g","h","i","j","k","l","m",
                "n","o","p","q","r","s","t","u","v","w","x","y","z">>

charToLower(c) ==
    IF \E i \in 1..26 : UpperChars[i] = c
    THEN LowerChars[CHOOSE i \in 1..26 : UpperChars[i] = c]
    ELSE c

charToUpper(c) ==
    IF \E i \in 1..26 : LowerChars[i] = c
    THEN UpperChars[CHOOSE i \in 1..26 : LowerChars[i] = c]
    ELSE c

\* String.prototype.toLowerCase
toLowerCase(s) == [i \in 1..Len(s) |-> charToLower(s[i])]

\* String.prototype.toUpperCase
toUpperCase(s) == [i \in 1..Len(s) |-> charToUpper(s[i])]

\* String.prototype.includes
includes(s, q) ==
    \E i \in 0..(Len(s) - Len(q)) : SubSeq(s, i + 1, i + Len(q)) = q

\* String.prototype.startsWith
startsWith(s, p) == Len(p) <= Len(s) /\ SubSeq(s, 1, Len(p)) = p

\* String.prototype.trim
RECURSIVE trimStart(_)
trimStart(s) == IF s # <<>> /\ Head(s) = " " THEN trimStart(Tail(s)) ELSE s
RECURSIVE trimEnd(_)
trimEnd(s) ==
    IF s # <<>> /\ s[Len(s)] = " " THEN trimEnd(SubSeq(s, 1, Len(s) - 1)) ELSE s
trim(s) == trimEnd(trimStart(s))

\* parseInt(s, 16): the longest prefix of hexadecimal digits; NaN (here -1,
\* which compares false against every range) when there is none
HexDigits == <<"0","1","2","3","4","5","6","7","8","9","a","b","c","d","e","f">>
isHexDigit(c) == \E i \in 1..16 : HexDigits[i] = charToLower(c)
hexValue(c) == (CHOOSE i \in 1..16 : HexDigits[i] = charToLower(c)) - 1
RECURSIVE parseHexFrom(_, _)
parseHexFrom(s, acc) ==
    IF s # <<>> /\ isHexDigit(Head(s))
    THEN parseHexFrom(Tail(s), acc * 16 + hexValue(Head(s)))
    ELSE acc
parseInt16(s) ==
    IF s # <<>> /\ isHexDigit(Head(s)) THEN parseHexFrom(s, 0) ELSE -1

\* String.prototype.replace(c, ''): the first occurrence of c is removed
RECURSIVE replaceFirst(_, _)
replaceFirst(s, c) ==
    IF s = <<>> THEN <<>>
    ELSE IF Head(s) = c THEN Tail(s)
    ELSE <<Head(s)>> \o replaceFirst(Tail(s), c)

-----------------------------------------------------------------------------
(* Classifier (api.js) *)

\* CONFIG.aircraft.militaryIndicators.icaoRanges
icaoRanges == <<
    [start |-> 11401160, end |-> 11534335],   \* 0xADF7C8 .. 0xAFFFFF
    [start |-> 4440064,  end |-> 4444159],    \* 0x43C000 .. 0x43CFFF
    [start |-> 3842048,  end |-> 3866623],    \* 0x3AA000 .. 0x3AFFFF
    [start |-> 3907584,  end |-> 3932159] >>  \* 0x3BA000 .. 0x3BFFFF

\* CONFIG.aircraft.militaryIndicators.callsignPrefixes
callsignPrefixes == <<
    <<"R","C","H">>, <<"E","V","A","L">>, <<"A","R","M","Y">>, <<"N","A","V","Y">>,
    <<"C","N","V">>, <<"S","P","A","R">>, <<"J","A","K","E">>, <<"C","H","I","E","F">>,
    <<"B","O","X","E","R">>, <<"H","U","N","T">>, <<"N","A","T","O">>, <<"R","A","F">>,
    <<"G","A","F">>, <<"R","S","A","F">> >>

\* a null icao24 in a state vector (a null callsign is <<>>: null and '' are
\* both falsy and the code only tests the callsign for that)
NullId == <<"null">>

\* a record that has no callsign property: reading it gives undefined
Undefined == <<"undefined">>

\* faulty variant: the start of a range is not part of it
isMilitaryAircraftExclusive(icao24, callsign) ==
    IF icao24 = <<>> \/ icao24 = NullId THEN FALSE
    ELSE LET icaoNum == parseInt16(trim(icao24))
             inMilitaryRange ==
                 \E k \in 1..Len(icaoRanges) :
                     icaoNum > icaoRanges[k].start /\ icaoNum <= icaoRanges[k].end
         IN  IF inMilitaryRange THEN TRUE
             ELSE IF callsign # <<>>
                  THEN LET cleanCallsign == toUpperCase(trim(callsign))
                       IN  \E k \in 1..Len(callsignPrefixes) :
                               startsWith(cleanCallsign, callsignPrefixes[k])
                  ELSE FALSE

\* isMilitaryAircraft(icao24, callsign)
isMilitaryAircraft(icao24, callsign) ==
    IF icao24 = <<>> \/ icao24 = NullId THEN FALSE
    ELSE LET icaoNum == parseInt16(trim(icao24))
             inMilitaryRange ==
                 \E k \in 1..Len(icaoRanges) :
                     icaoNum >= icaoRanges[k].start /\ icaoNum <= icaoRanges[k].end
         IN  IF inMilitaryRange THEN TRUE
             ELSE IF callsign # <<>>
                  THEN LET cleanCallsign == toUpperCase(trim(callsign))
                       IN  \E k \in 1..Len(callsignPrefixes) :
                               startsWith(cleanCallsign, callsignPrefixes[k])
                  ELSE FALSE

\* The object parseStateVector returns for a vector without velocity that
\* passes its checks (the fields the store and the filter read).  hasTrail
\* says that the object carries its own `trail` property.
parsedAircraft(icao24, callsign, lat, lon, altitude, t) ==
    [ icao24     |-> trim(icao24),
      callsign   |-> IF callsign # <<>> THEN trim(callsign) ELSE <<"N","/","A">>,
      lat        |-> lat,
      lon        |-> lon,
      altitude   |-> altitude,
      speed      |-> Null,
      isMilitary |-> isMilitaryAircraft(icao24, callsign),
      hasTrail   |-> TRUE,
      trail      |-> <<>>,
      _lastSeen  |-> t ]

\* The same observation handed to updateAircraft as a plain record that has
\* no `trail` property of its own (the shape of the specification's scenarios)
plainAircraft(icao24, callsign, lat, lon, altitude, t) ==
    [ parsedAircraft(icao24, callsign, lat, lon, altitude, t) EXCEPT !.hasTrail = FALSE ]

-----------------------------------------------------------------------------
(* Parser (api.js) *)

\* Math.round(n / d) for an even d > 0: the nearest integer, halves upwards
round(n, d) == (n + d \div 2) \div d

\* Math.round(baro_altitude * 3.28084): metres to feet (3.28084 = 82021 / 25000)
metresToFeet(m) == round(m * 82021, 25000)

\* Math.round(velocity * 1.94384): m/s to knots (1.94384 = 12149 / 6250)
msToKnots(v) == round(v * 12149, 6250)

\* isValidAircraftData({latitude, longitude, altitude, speed})
isValidAircraftData(latitude, longitude, altitude, speed) ==
    IF latitude < 0 - 90 * 1000000 \/ latitude > 90 * 1000000 THEN FALSE
    ELSE IF longitude < 0 - 180 * 1000000 \/ longitude > 180 * 1000000 THEN FALSE
    ELSE IF altitude # Null
            /\ (altitude < dataQuality.minAltitude \/ altitude > dataQuality.maxAltitude)
         THEN FALSE
    ELSE IF speed # Null /\ (speed < dataQuality.minSpeed \/ speed > dataQuality.maxSpeed)
         THEN FALSE
    ELSE TRUE

\* the units of a state vector converted
altitudeOf(state) ==
    IF state.baro_altitude # Null THEN metresToFeet(state.baro_altitude) ELSE Null
speedOf(state) ==
    IF state.velocity # Null THEN msToKnots(state.velocity) ELSE Null

\* parseStateVector returns null for this vector
parseRejects(state) ==
    \/ state.length < stateLength
    \/ state.latitude = Null \/ state.longitude = Null
    \/ ~isValidAircraftData(state.latitude, state.longitude,
                            altitudeOf(state), speedOf(state))

\* parseStateVector throws for this vector: icao24.trim() on a null icao24
parseThrows(state) == ~parseRejects(state) /\ state.icao24 = NullId

\* faulty variant: altitude and speed are clamped to the plausible range
parseStateVectorClamping(state, t) ==
    IF state.length < stateLength \/ state.latitude = Null \/ state.longitude = Null
    THEN <<>>
    ELSE << [parsedAircraft(state.icao24, state.callsign, state.latitude, state.longitude,
                            IF altitudeOf(state) # Null
                               /\ altitudeOf(state) > dataQuality.maxAltitude
                            THEN dataQuality.maxAltitude ELSE altitudeOf(state), t)
               EXCEPT !.speed = IF speedOf(state) # Null
                                   /\ speedOf(state) > dataQuality.maxSpeed
                                THEN dataQuality.maxSpeed ELSE speedOf(state)] >>

\* parseStateVector(state) when it does not throw: <<>> for null, or the
\* object in a sequence of one
parseStateVector(state, t) ==
    IF parseRejects(state)
    THEN <<>>
    ELSE << [parsedAircraft(state.icao24, state.callsign, state.latitude, state.longitude,
                            altitudeOf(state), t)
               EXCEPT !.speed = speedOf(state)] >>

\* data.states.map(state => parseStateVector(state)).filter(Boolean)
RECURSIVE parseAll(_, _)
parseAll(states, t) ==
    IF states = <<>> THEN <<>>
    ELSE parseStateVector(Head(states), t) \o parseAll(Tail(states), t)

\* the map over data.states throws
parseAllThrows(states) == \E i \in 1..Len(states) : parseThrows(states[i])

-----------------------------------------------------------------------------
(* Trail tracker (aircraft.js) *)

Abs(x) == IF x < 0 THEN 0 - x ELSE x

Range(f) == {f[i] : i \in DOMAIN f}

\* calculateDistance, in millimetres.  The positions of this model lie on one
\* meridian (lon1 = lon2), where dLon = 0 and the haversine formula reduces
\* to R * |toRad(lat2 - lat1)|.
calculateDistance(lat1, lon1, lat2, lon2) ==
    (Abs(lat2 - lat1) * umPerMicroDegree) \div 1000

\* "Skip if moved less than 100 meters": there is a last trail point and the
\* new position is less than 0.1 km from it
movedTooLittle(aircraft, newData) ==
    /\ aircraft.trail # <<>>
    /\ LET lastTrail == aircraft.trail[Len(aircraft.trail)]
       IN  calculateDistance(lastTrail.lat, lastTrail.lon, newData.lat, newData.lon)
               < minTrailDistance

\* the point pushed on the trail
trailPoint(newData, t) ==
    [lat |-> newData.lat, lon |-> newData.lon, altitude |-> newData.altitude, time |-> t]

\* faulty variant: the trail is never cut
limitTrailNever(trail) == trail

\* "Limit trail length": trail.slice(-maxPoints)
limitTrail(trail) ==
    IF Len(trail) > trailMaxPoints
    THEN SubSeq(trail, Len(trail) - trailMaxPoints + 1, Len(trail))
    ELSE trail

\* "Remove old trail points": trail.filter(point => now - point.time < maxAge)
removeOld(trail, t) ==
    LET fresh(point) == t - point.time < trailDuration
    IN  SelectSeq(trail, fresh)

\* addTrailPoint(aircraft, newData): the aircraft after the call.  A stored
\* aircraft always has a trail array, so `if (!aircraft.trail)` never fires.
addTrailPoint(aircraft, newData, t) ==
    IF movedTooLittle(aircraft, newData)
    THEN aircraft
    ELSE [aircraft EXCEPT
            !.trail = removeOld(limitTrail(Append(aircraft.trail, trailPoint(newData, t))), t)]

-----------------------------------------------------------------------------
(* State store (aircraft.js) *)

\* aircraftMap.has(icao)
has(map, icao) == \E i \in 1..Len(map) : map[i].icao24 = icao

\* aircraftMap.get(icao)
get(map, icao) == map[CHOOSE i \in 1..Len(map) : map[i].icao24 = icao]

keys(map) == {map[i].icao24 : i \in 1..Len(map)}

\* faulty variant: the stored isMilitary is not overwritten
objectAssignKeepMilitary(existing, aircraft) ==
    [existing EXCEPT
        !.icao24     = aircraft.icao24,
        !.callsign   = IF aircraft.callsign = Undefined THEN @ ELSE aircraft.callsign,
        !.lat        = aircraft.lat,
        !.lon        = aircraft.lon,
        !.altitude   = aircraft.altitude,
        !.speed      = aircraft.speed,
        !._lastSeen  = aircraft._lastSeen,
        !.trail      = IF aircraft.hasTrail THEN aircraft.trail ELSE @]

\* faulty variant: a null altitude or speed does not overwrite the stored one
objectAssignKeepNull(existing, aircraft) ==
    [existing EXCEPT
        !.icao24     = aircraft.icao24,
        !.callsign   = IF aircraft.callsign = Undefined THEN @ ELSE aircraft.callsign,
        !.lat        = aircraft.lat,
        !.lon        = aircraft.lon,
        !.altitude   = IF aircraft.altitude = Null THEN @ ELSE aircraft.altitude,
        !.speed      = IF aircraft.speed = Null THEN @ ELSE aircraft.speed,
        !.isMilitary = aircraft.isMilitary,
        !._lastSeen  = aircraft._lastSeen,
        !.trail      = IF aircraft.hasTrail THEN aircraft.trail ELSE @]

\* Object.assign(existing, aircraft): every own property of the incoming
\* object overwrites the stored one, `trail` included when the object has it;
\* a property the incoming object does not have is left as it is
objectAssign(existing, aircraft) ==
    [existing EXCEPT
        !.icao24     = aircraft.icao24,
        !.callsign   = IF aircraft.callsign = Undefined THEN @ ELSE aircraft.callsign,
        !.lat        = aircraft.lat,
        !.lon        = aircraft.lon,
        !.altitude   = aircraft.altitude,
        !.speed      = aircraft.speed,
        !.isMilitary = aircraft.isMilitary,
        !._lastSeen  = aircraft._lastSeen,
        !.trail      = IF aircraft.hasTrail THEN aircraft.trail ELSE @]

\* "Update existing aircraft": the stored object after lines 37-46
updateExisting(existing, aircraft, t, trailsOn) ==
    LET tracked == IF trailsOn THEN addTrailPoint(existing, aircraft, t) ELSE existing
    IN  [objectAssign(tracked, aircraft) EXCEPT !._lastSeen = t]

\* "Add new aircraft": the incoming object itself becomes the stored one
addNew(aircraft, t) ==
    [aircraft EXCEPT !._lastSeen = t, !.trail = <<>>, !.hasTrail = TRUE]

\* faulty variant: every observation is stored as a new entry
mergeOneAlwaysNew(map, aircraft, t, trailsOn) ==
    Append(map, [aircraft EXCEPT !._lastSeen = t, !.trail = <<>>, !.hasTrail = TRUE])

\* faulty variant: an update deletes the entry and sets it again, moving it to the end
mergeOneReinsert(map, aircraft, t, trailsOn) ==
    LET others(a) == a.icao24 # aircraft.icao24
    IN  IF \E i \in 1..Len(map) : map[i].icao24 = aircraft.icao24
        THEN Append(SelectSeq(map, others),
                    [[(CHOOSE a \in {map[i] : i \in 1..Len(map)} : a.icao24 = aircraft.icao24)
                        EXCEPT !.callsign = IF aircraft.callsign = Undefined
                                            THEN @ ELSE aircraft.callsign,
                               !.lat = aircraft.lat,
                               !.lon = aircraft.lon, !.altitude = aircraft.altitude,
                               !.speed = aircraft.speed,
                               !.isMilitary = aircraft.isMilitary,
                               !.trail = IF aircraft.hasTrail THEN aircraft.trail ELSE @]
                        EXCEPT !._lastSeen = t])
        ELSE Append(map, [aircraft EXCEPT !._lastSeen = t, !.trail = <<>>, !.hasTrail = TRUE])

\* one iteration of newAircraftList.forEach
mergeOne(map, aircraft, t, trailsOn) ==
    IF has(map, aircraft.icao24)
    THEN [i \in 1..Len(map) |->
            IF map[i].icao24 = aircraft.icao24
            THEN updateExisting(map[i], aircraft, t, trailsOn)
            ELSE map[i]]
    ELSE Append(map, addNew(aircraft, t))

RECURSIVE mergeAll(_, _, _, _)
mergeAll(map, newAircraftList, t, trailsOn) ==
    IF newAircraftList = <<>>
    THEN map
    ELSE mergeAll(mergeOne(map, Head(newAircraftList), t, trailsOn),
                  Tail(newAircraftList), t, trailsOn)

\* faulty variant: the sweep deletes at the timeout, not after it
timedOutAtTimeout(icao, aircraft, currentIcaos, t) ==
    icao \notin currentIcaos /\ t - aircraft._lastSeen >= timeout

\* the test of the sweep: not in this update, and last seen over 2 minutes ago
timedOut(icao, aircraft, currentIcaos, t) ==
    icao \notin currentIcaos /\ t - aircraft._lastSeen > timeout

\* the sweep over aircraftMap.entries(): what is left after the deletions
sweep(map, currentIcaos, t) ==
    LET kept(aircraft) == ~timedOut(aircraft.icao24, aircraft, currentIcaos, t)
    IN  SelectSeq(map, kept)

-----------------------------------------------------------------------------
(* Filter engine (aircraft.js) *)

\* the property names of `filters`, letter by letter
filterSpellings ==
    [ civilian    |-> <<"c","i","v","i","l","i","a","n">>,
      military    |-> <<"m","i","l","i","t","a","r","y">>,
      minAltitude |-> <<"m","i","n","A","l","t","i","t","u","d","e">>,
      maxAltitude |-> <<"m","a","x","A","l","t","i","t","u","d","e">>,
      searchQuery |-> <<"s","e","a","r","c","h","Q","u","e","r","y">> ]

\* the property of `filters` that a string names; "" (no property) for a
\* string that names none
filterKey(chars) ==
    IF \E name \in DOMAIN filterSpellings : filterSpellings[name] = chars
    THEN CHOOSE name \in DOMAIN filterSpellings : filterSpellings[name] = chars
    ELSE ""

\* faulty variant: the altitude bounds are exclusive
passesFiltersExclusive(aircraft, f) ==
    IF aircraft.isMilitary /\ ~f.military THEN FALSE
    ELSE IF ~aircraft.isMilitary /\ ~f.civilian THEN FALSE
    ELSE IF aircraft.altitude # Null
            /\ (aircraft.altitude <= f.minAltitude \/ aircraft.altitude >= f.maxAltitude)
         THEN FALSE
    ELSE IF f.searchQuery # <<>>
            /\ LET query    == toLowerCase(f.searchQuery)
                   callsign == toLowerCase(aircraft.callsign)
                   icao     == toLowerCase(aircraft.icao24)
               IN  ~includes(callsign, query) /\ ~includes(icao, query)
         THEN FALSE
    ELSE TRUE

\* the callback of applyFilters
passesFilters(aircraft, f) ==
    IF aircraft.isMilitary /\ ~f.military THEN FALSE
    ELSE IF ~aircraft.isMilitary /\ ~f.civilian THEN FALSE
    ELSE IF aircraft.altitude # Null
            /\ (aircraft.altitude < f.minAltitude \/ aircraft.altitude > f.maxAltitude)
         THEN FALSE
    ELSE IF f.searchQuery # <<>>
            /\ LET query    == toLowerCase(f.searchQuery)
                   callsign == toLowerCase(aircraft.callsign)
                   icao     == toLowerCase(aircraft.icao24)
               IN  ~includes(callsign, query) /\ ~includes(icao, query)
         THEN FALSE
    ELSE TRUE

\* applyFilters(): Array.from(aircraftMap.values()).filter(...), as references
applyFilters(map, f) ==
    LET passes(aircraft) == passesFilters(aircraft, f)
        kept == SelectSeq(map, passes)
    IN  [i \in 1..Len(kept) |-> kept[i].icao24]

\* applyFilters() throws a TypeError: with a search string,
\* aircraft.callsign.toLowerCase() is reached for a record without callsign
applyFiltersThrows(map, f) ==
    /\ f.searchQuery # <<>>
    /\ \E i \in 1..Len(map) :
          /\ map[i].callsign = Undefined
          /\ ~(map[i].isMilitary /\ ~f.military)
          /\ ~(~map[i].isMilitary /\ ~f.civilian)
          /\ ~( /\ map[i].altitude # Null
                /\ (map[i].altitude < f.minAltitude \/ map[i].altitude > f.maxAltitude) )

\* faulty variant: every stored record is counted as military
countMilitaryAll(map) == Len(map)

\* countMilitary()
countMilitary(map) == Cardinality({i \in 1..Len(map) : map[i].isMilitary})

\* what updateAircraft returns
updateStats(map, view) ==
    [total |-> Len(map), filtered |-> Len(view), military |-> countMilitary(map)]

\* getStats() (without onGround, which no record of this model has)
getStats(map, view) ==
    [total |-> Len(map), filtered |-> Len(view), military |-> countMilitary(map),
     civilian |-> Len(map) - countMilitary(map)]

-----------------------------------------------------------------------------
(* Bounds *)

\* Date.now() when the page starts
StartTime == 1000000

\* the longest batch handed to updateAircraft
MaxBatch == 2

\* how many times the clock advances
MaxTicks == 1

\* the longest batch while the filter state is explored
MaxFilterBatch == 1

\* the longest batch, and the longest trail, while the trail tracker is explored
MaxTrailBatch == 1
MaxTrail == 2

\* the longest batch while the selection is explored
MaxSelectionBatch == 1

\* the longest batch while the counts and the failures of the store are explored
MaxCoreBatch == 1

\* how many fetches are started, and how many times the clock advances, while
\* the poller is explored
MaxFetches == 2
MaxPollTicks == 2

\* how many fetches are started, and how many times the clock advances, while
\* the interval timer is explored
MaxIntervalFetches == 3
MaxIntervalTicks == 5

\* how many fetches are started, and how many times the clock advances, while
\* the starts and stops of the poller are explored
MaxLifeFetches == 2
MaxLifeTicks == 2

-----------------------------------------------------------------------------
(* Inputs *)

IcaoA == <<"a","d","f","7","c","9">>      \* inside 0xADF7C8 .. 0xAFFFFF
IcaoB == <<"a","1","b","2","c","3">>      \* inside no military range
CsDlh == <<"D","L","H","4">>
CsRch == <<"r","c","h","1"," ">>          \* as upstream pads it; a military prefix
NoCallsign == <<>>                        \* upstream null

Lon0  == 10 * 1000000                      \* 10 degrees east
Lat0  == 10 * 1000000                      \* 10 degrees north
Lat50 == Lat0 + 450                        \* 0.05 km north of Lat0
Lat100 == Lat0 + 900                       \* just over 0.1 km north of Lat0
Lat500 == Lat0 + 4497                      \* 0.5 km north of Lat0

\* sequences over S of length 0..n
SeqsUpTo(S, n) == UNION {[1..k -> S] : k \in 0..n}

\* what the parser hands over in the full application
ParsedObservations ==
    { parsedAircraft(IcaoA, CsDlh, Lat0, Lon0, Null, now),
      parsedAircraft(IcaoB, CsRch, Lat0, Lon0, 0, now),
      parsedAircraft(IcaoB, NoCallsign, Lat500, Lon0, 45000, now) }

Batches == SeqsUpTo(ParsedObservations, MaxBatch)

\* observations on both sides of each predicate of the filter
FilterObservations ==
    { parsedAircraft(IcaoA, CsDlh, Lat0, Lon0, Null, now),
      parsedAircraft(IcaoB, CsRch, Lat0, Lon0, 0, now),
      parsedAircraft(IcaoB, CsDlh, Lat0, Lon0, 45000, now),
      parsedAircraft(IcaoB, NoCallsign, Lat0, Lon0, 5000, now) }

FilterBatches == SeqsUpTo(FilterObservations, MaxFilterBatch)

\* one aircraft on its way north, as the parser hands it over and as a plain
\* record
TrailObservations ==
    UNION { { parsedAircraft(IcaoB, CsDlh, lat, Lon0, 5000, now),
              plainAircraft(IcaoB, CsDlh, lat, Lon0, 5000, now) }
            : lat \in {Lat0, Lat50, Lat100, Lat500} }

TrailBatches == SeqsUpTo(TrailObservations, MaxTrailBatch)

\* one aircraft shuttling between two places 0.5 km apart
CapObservations ==
    { plainAircraft(IcaoB, CsDlh, Lat0, Lon0, 5000, now),
      plainAircraft(IcaoB, CsDlh, Lat500, Lon0, 5000, now),
      parsedAircraft(IcaoB, CsDlh, Lat0, Lon0, 5000, now) }

\* two aircraft, one of which loses its callsign and its altitude
SelectionObservations ==
    { parsedAircraft(IcaoA, CsDlh, Lat0, Lon0, 5000, now),
      parsedAircraft(IcaoA, NoCallsign, Lat500, Lon0, Null, now),
      parsedAircraft(IcaoB, CsRch, Lat0, Lon0, 0, now) }

SelectionBatches == SeqsUpTo(SelectionObservations, MaxSelectionBatch)

\* a record handed to updateAircraft that has no callsign property (and no
\* trail property)
bareAircraft(icao24, lat, lon, altitude, t) ==
    [ plainAircraft(icao24, NoCallsign, lat, lon, altitude, t) EXCEPT !.callsign = Undefined ]

\* a military and a civilian record as the parser makes them, and a record
\* without callsign
CoreObservations ==
    { parsedAircraft(IcaoA, CsDlh, Lat0, Lon0, 5000, now),
      parsedAircraft(IcaoB, CsDlh, Lat0, Lon0, 45000, now),
      bareAircraft(IcaoB, Lat0, Lon0, 5000, now) }

CoreBatches == SeqsUpTo(CoreObservations, MaxCoreBatch)

\* the calls of setFilter while the counts and the failures are explored
CoreFilterCalls ==
    ({"searchQuery"} \X {<<>>, <<"d","l","h">>})
    \cup ({"military"} \X {FALSE})

\* identifiers at the ends of the military ranges, in both letter cases,
\* padded, empty, null and not hexadecimal
ClassifyIds ==
    { <<"A","D","F","7","C","9">>, <<"a","d","f","7","c","8">>, <<"a","d","f","7","c","7">>,
      <<"a","f","f","f","f","f">>, <<"b","0","0","0","0","0">>, <<"4","3","c","0","0","0">>,
      <<"3","b","f","f","f","f">>, <<" ","3","a","a","0","0","0"," ">>, IcaoB,
      <<"z","z","z","z","z","z">>, <<>>, NullId }

\* callsigns with and without a military prefix, in lower case, padded, with
\* the prefix not at the start, shorter than a prefix, and null
ClassifyCallsigns ==
    { NoCallsign, CsDlh, CsRch, <<"R","C","H","1","2","3">>, <<" ","n","a","t","o","1">>,
      <<"X","R","C","H">>, <<"R","A">>, <<"R","A","F">>, <<"C","H","I","E","F","9">>,
      <<"N","/","A">> }

\* a state vector of 17 elements (the elements the parser reads)
stateVector(icao24, callsign, longitude, latitude, baro_altitude, velocity) ==
    [ length |-> 17, icao24 |-> icao24, callsign |-> callsign, longitude |-> longitude,
      latitude |-> latitude, baro_altitude |-> baro_altitude, velocity |-> velocity ]

\* a well-formed vector without altitude and velocity
VecA == stateVector(IcaoA, CsDlh, Lon0, Lat0, Null, Null)

\* a well-formed vector at the upper bounds: 90 degrees north, 180 degrees
\* east, 18288 m = 60000 ft, 360 m/s = 700 knots
VecB == stateVector(IcaoB, CsRch, 180 * 1000000, 90 * 1000000, 18288, 360)

\* a vector with a null identifier and a valid position
VecNullId == stateVector(NullId, CsDlh, Lon0, Lat0, 5000, 200)

\* a vector without position
VecNoPosition == stateVector(IcaoB, CsRch, Null, Null, 5000, 200)

\* the batches while the ingestion of batches is explored: empty, valid
\* vectors, and a valid vector after one without an identifier or one without a
\* position
IngestBatches ==
    { <<>>, <<VecA>>, <<VecA, VecB>>, <<VecNullId, VecA>>, <<VecNoPosition, VecA>> }

\* the responses while the ingestion of batches is explored
IngestResponses ==
    { [kind |-> "ok", states |-> states] : states \in IngestBatches }
    \cup { [kind |-> kind, states |-> <<>>] : kind \in {"networkError", "http429", "httpError"} }

\* vectors on both sides of each bound of the parser: 18289 m = 60003 ft,
\* -304 m = -997 ft, -305 m = -1001 ft, 16 m/s = 31 knots, 15 m/s = 29 knots,
\* 361 m/s = 702 knots
ParseVectors ==
    { VecA, VecB,
      stateVector(IcaoB, CsRch, Lon0, Lat0, 18289, 200),
      stateVector(IcaoB, CsRch, 0 - 180 * 1000000, 0 - 90 * 1000000, 0 - 304, 16),
      stateVector(IcaoB, CsRch, Lon0, Lat0, 0 - 305, 200),
      stateVector(IcaoB, CsRch, Lon0, Lat0, 5000, 15),
      stateVector(IcaoB, CsRch, Lon0, Lat0, 5000, 361),
      stateVector(IcaoB, CsRch, Lon0, 90 * 1000000 + 1, 5000, 200),
      stateVector(IcaoB, CsRch, Lon0, 0 - 90 * 1000000 - 1, 5000, 200),
      stateVector(IcaoB, CsRch, 180 * 1000000 + 1, Lat0, 5000, 200),
      stateVector(IcaoB, CsRch, 0 - 180 * 1000000 - 1, Lat0, 5000, 200),
      stateVector(IcaoB, CsRch, Lon0, Null, 5000, 200),
      stateVector(IcaoB, CsRch, Null, Lat0, 5000, 200),
      [stateVector(IcaoB, CsRch, Lon0, Lat0, 5000, 200) EXCEPT !.length = 16] }

\* the responses while the parser is explored: one vector each
ParseResponses == { [kind |-> "ok", states |-> <<state>>] : state \in ParseVectors }

\* the responses while the poller is explored
PollResponses ==
    { [kind |-> "ok", states |-> <<VecA>>],
      [kind |-> "networkError", states |-> <<>>],
      [kind |-> "http429", states |-> <<>>] }

\* the responses while the interval timer is explored: every fetch succeeds
IntervalResponses ==
    { [kind |-> "ok", states |-> <<VecA>>], [kind |-> "ok", states |-> <<>>] }

\* the element ids of the two altitude sliders
MinSlider == <<"m","i","n","-","a","l","t","i","t","u","d","e">>
MaxSlider == <<"m","a","x","-","a","l","t","i","t","u","d","e">>

\* the values the sliders are moved to
SliderValues == {0, 5000, 10000}

\* the clock of the poller advances by half the minimum interval
PollClockSteps == {minInterval \div 2}

\* the clock advances by exactly trailDuration, or by one second more
TrailClockSteps == {trailDuration, trailDuration + 1000}

\* the calls of setFilter: the check boxes, the search box, the sliders (whose
\* element ids give the names "minaltitude" and "maxaltitude"), and direct
\* calls with the altitude bounds
AllFilterCalls ==
    ({"civilian", "military"} \X BOOLEAN)
    \cup ({"minAltitude"} \X {0, 5000})
    \cup ({"maxAltitude"} \X {45000, 5000})
    \cup ({"searchQuery"} \X {<<>>, <<"d","l","h">>, <<"C","3">>})
    \cup ({"minaltitude"} \X {5000})

\* the calls of setFilter made while the store is reconciled and swept
FilterCalls ==
    ({"searchQuery"} \X {<<>>, <<"d","l","h">>})
    \cup ({"minaltitude"} \X {5000})

\* the clock advances by exactly the timeout, or by one second more (121 s)
ClockSteps == {timeout, timeout + 1000}

-----------------------------------------------------------------------------
(* Operations *)

Init ==
    /\ aircraftMap = <<>>
    /\ filteredAircraft = <<>>
    /\ selectedAircraft = <<>>
    /\ filters = [civilian |-> TRUE, military |-> TRUE, minAltitude |-> 0,
                  maxAltitude |-> 45000, searchQuery |-> <<>>]
    /\ trails = TRUE
    /\ now = StartTime
    /\ ticks = 0
    /\ call = [op |-> "init", batch |-> <<>>]
    /\ prev = <<>>
    /\ everInserted = <<>>
    /\ prevSelected = <<>>
    /\ lastRequestTime = 0
    /\ updateInterval = <<>>
    /\ timers = <<>>
    /\ isLiveMode = TRUE
    /\ isInitialized = FALSE
    /\ hidden = FALSE
    /\ online = TRUE
    /\ requests = <<>>
    /\ toast = "none"
    /\ issued = <<>>
    /\ fetched = [kind |-> "none", states |-> <<>>, at |-> 0]

\* faulty variant: the sweep leaves the selection as it is
deselectNever(selected, merged, swept) == selected

\* "If deleted aircraft was selected, deselect"
deselectEvicted(selected, merged, swept) ==
    IF selected # <<>> /\ selected[1] \notin keys(swept) /\ selected[1] \in keys(merged)
    THEN <<>>
    ELSE selected

\* updateAircraft(newAircraftList): what it does to the store.  The calls of
\* Date.now() inside one synchronous run are taken at the same millisecond.
\* When applyFilters throws, the store is already reconciled, the view stays
\* as it was and nothing is returned (`result` is read only when `threw` is
\* false).
updateAircraft(newAircraftList) ==
    LET currentIcaos == {newAircraftList[i].icao24 : i \in 1..Len(newAircraftList)}
        merged == mergeAll(aircraftMap, newAircraftList, now, trails)
        swept  == sweep(merged, currentIcaos, now)
    IN  /\ aircraftMap' = swept
        /\ selectedAircraft' = deselectEvicted(selectedAircraft, merged, swept)
        /\ prevSelected' = selectedAircraft
        /\ filteredAircraft' = IF applyFiltersThrows(swept, filters)
                               THEN filteredAircraft
                               ELSE applyFilters(swept, filters)
        /\ call' = [op |-> "updateAircraft", batch |-> newAircraftList,
                    threw |-> applyFiltersThrows(swept, filters),
                    result |-> updateStats(swept, filteredAircraft')]
        /\ prev' = aircraftMap
        /\ everInserted' = everInserted \o
              SelectSeq([i \in 1..Len(merged) |-> merged[i].icao24],
                        LAMBDA icao : icao \notin Range(everInserted))
        /\ UNCHANGED <<filters, trails, now, ticks>>

\* updateAircraft(newAircraftList), called on the store directly
UpdateAircraft(newAircraftList) ==
    /\ updateAircraft(newAircraftList)
    /\ UNCHANGED appVars

\* faulty variant: setFilter stores the value and leaves the view as it was
SetFilterNoApply(filterName, value) ==
    /\ IF filterName \in DOMAIN filters
       THEN filters' = [filters EXCEPT ![filterName] = value]
       ELSE UNCHANGED filters
    /\ call' = [op |-> "setFilter", batch |-> <<>>, threw |-> FALSE]
    /\ prev' = aircraftMap
    /\ prevSelected' = selectedAircraft
    /\ UNCHANGED appVars
    /\ UNCHANGED <<aircraftMap, filteredAircraft, selectedAircraft, trails, now, ticks,
                   everInserted>>

\* setFilter(filterName, value): what it does to the filter state and the
\* view; when applyFilters throws, the filter state is already changed and the
\* view stays as it was
setFilter(filterName, value) ==
    IF filterName \in DOMAIN filters
    THEN /\ filters' = [filters EXCEPT ![filterName] = value]
         /\ filteredAircraft' = IF applyFiltersThrows(aircraftMap, filters')
                                THEN filteredAircraft
                                ELSE applyFilters(aircraftMap, filters')
    ELSE UNCHANGED <<filters, filteredAircraft>>

\* setFilter(filterName, value), called on the store directly
SetFilter(filterName, value) ==
    /\ setFilter(filterName, value)
    /\ call' = [op |-> "setFilter", batch |-> <<>>,
                threw |-> (filterName \in DOMAIN filters
                             /\ applyFiltersThrows(aircraftMap, filters'))]
    /\ prev' = aircraftMap
    /\ prevSelected' = selectedAircraft
    /\ UNCHANGED appVars
    /\ UNCHANGED <<aircraftMap, selectedAircraft, trails, now, ticks, everInserted>>

\* handleAltitudeChange(e), on the input event of a slider: the filter name
\* is the element id without its first "-", the value is parseInt of the
\* slider's value (here the integer itself)
HandleAltitudeChange(id, value) ==
    /\ setFilter(filterKey(replaceFirst(id, "-")), value)
    /\ call' = [op |-> "handleAltitudeChange", batch |-> <<>>, slider |-> id,
                value |-> value]
    /\ prev' = aircraftMap
    /\ prevSelected' = selectedAircraft
    /\ UNCHANGED appVars
    /\ UNCHANGED <<aircraftMap, selectedAircraft, trails, now, ticks, everInserted>>

\* clearAll()
ClearAll ==
    /\ aircraftMap' = <<>>
    /\ filteredAircraft' = <<>>
    /\ selectedAircraft' = <<>>
    /\ call' = [op |-> "clearAll", batch |-> <<>>]
    /\ prev' = aircraftMap
    /\ prevSelected' = selectedAircraft
    /\ UNCHANGED appVars
    /\ everInserted' = <<>>
    /\ UNCHANGED <<filters, trails, now, ticks>>

\* selectAircraft(icao24)
SelectAircraft(icao24) ==
    /\ selectedAircraft' = IF has(aircraftMap, icao24) THEN <<icao24>> ELSE <<>>
    /\ call' = [op |-> "selectAircraft", batch |-> <<>>, icao24 |-> icao24]
    /\ prev' = aircraftMap
    /\ prevSelected' = selectedAircraft
    /\ UNCHANGED appVars
    /\ UNCHANGED <<aircraftMap, filteredAircraft, filters, trails, now, ticks, everInserted>>

\* deselectAircraft()
DeselectAircraft ==
    /\ selectedAircraft' = <<>>
    /\ call' = [op |-> "deselectAircraft", batch |-> <<>>]
    /\ prev' = aircraftMap
    /\ prevSelected' = selectedAircraft
    /\ UNCHANGED appVars
    /\ UNCHANGED <<aircraftMap, filteredAircraft, filters, trails, now, ticks, everInserted>>

\* getStats()
GetStats ==
    /\ call' = [op |-> "getStats", batch |-> <<>>,
                result |-> getStats(aircraftMap, filteredAircraft)]
    /\ prev' = aircraftMap
    /\ prevSelected' = selectedAircraft
    /\ UNCHANGED appVars
    /\ UNCHANGED <<aircraftMap, filteredAircraft, selectedAircraft, filters, trails, now,
                   ticks, everInserted>>

\* handleDisplayOptions for the "show-trails" check box
SetTrails(enabled) ==
    /\ trails' = enabled
    /\ call' = [op |-> "handleDisplayOptions", batch |-> <<>>]
    /\ prev' = aircraftMap
    /\ prevSelected' = selectedAircraft
    /\ UNCHANGED appVars
    /\ UNCHANGED <<aircraftMap, filteredAircraft, selectedAircraft, filters, now, ticks,
                   everInserted>>

\* time passes
Tick(ms) ==
    /\ now' = now + ms
    /\ ticks' = ticks + 1
    /\ call' = [op |-> "tick", batch |-> <<>>]
    /\ prev' = aircraftMap
    /\ prevSelected' = selectedAircraft
    /\ UNCHANGED appVars
    /\ UNCHANGED <<aircraftMap, filteredAircraft, selectedAircraft, filters, trails,
                   everInserted>>

-----------------------------------------------------------------------------
(* Poller: the rate limit of api.js and the App of config.js *)

\* a step of the poller that does not touch the store; `sent` records whether
\* it started a fetch
appStep(op, sent) ==
    /\ call' = [op |-> op, batch |-> <<>>, sent |-> sent]
    /\ prev' = aircraftMap
    /\ prevSelected' = selectedAircraft
    /\ UNCHANGED <<aircraftMap, filteredAircraft, selectedAircraft, filters, trails, now,
                   ticks, everInserted>>

\* canMakeRequest()
canMakeRequest == now - lastRequestTime >= minInterval

\* waitForRateLimit(): the time it waits
waitTime == IF canMakeRequest THEN 0 ELSE minInterval - (now - lastRequestTime)

\* clearInterval(id)
clearInterval(set, id) == SelectSeq(set, LAMBDA timer : timer.id # id)

\* the handle that setInterval returns: a number that no timer that is set has
newTimerId(set) ==
    1 + (CHOOSE n \in {0} \cup {set[k].id : k \in 1..Len(set)} :
            \A k \in 1..Len(set) : set[k].id <= n)

\* setInterval(callback, CONFIG.intervals.liveUpdate)
setInterval(set, t) == Append(set, [id |-> newTimerId(set), at |-> t + liveUpdate])

\* faulty variant: the existing interval is not cleared
startLiveModeNoClear ==
    /\ isLiveMode' = TRUE
    /\ timers' = setInterval(timers, now)
    /\ updateInterval' = <<newTimerId(timers)>>

\* startLiveMode(): an existing interval is cleared, and an interval is set
startLiveMode ==
    LET cleared == IF updateInterval # <<>>
                   THEN clearInterval(timers, updateInterval[1])
                   ELSE timers
    IN  /\ isLiveMode' = TRUE
        /\ timers' = setInterval(cleared, now)
        /\ updateInterval' = <<newTimerId(cleared)>>

\* stopLiveMode()
stopLiveMode ==
    /\ isLiveMode' = FALSE
    /\ IF updateInterval # <<>>
       THEN /\ timers' = clearInterval(timers, updateInterval[1])
            /\ updateInterval' = <<>>
       ELSE UNCHANGED <<timers, updateInterval>>

\* fetchAndUpdate() up to its await of fetch(url): skipped inside the rate
\* limit; otherwise getAllStates waits for the rate limit (no time, it was
\* just tested) and starts the fetch
fetchAndUpdate(isInit) ==
    IF ~canMakeRequest
    THEN UNCHANGED <<requests, issued>>
    ELSE /\ requests' = Append(requests, [at |-> now + waitTime, init |-> isInit])
         /\ issued' = Append(issued, now + waitTime)

\* init(): the first fetchAndUpdate; when that was skipped init goes on at once
AppInit ==
    /\ ~isInitialized
    /\ \A i \in 1..Len(requests) : ~requests[i].init
    /\ appStep("init", canMakeRequest)
    /\ fetchAndUpdate(TRUE)
    /\ IF canMakeRequest
       THEN UNCHANGED <<isLiveMode, updateInterval, timers, isInitialized>>
       ELSE startLiveMode /\ isInitialized' = TRUE
    /\ toast' = "none"
    /\ UNCHANGED <<lastRequestTime, hidden, online, fetched>>

\* the callback of setInterval in startLiveMode
IntervalFires ==
    /\ \E k \in 1..Len(timers) :
          /\ now >= timers[k].at
          /\ timers' = [timers EXCEPT ![k].at = @ + liveUpdate]
    /\ appStep("interval", isLiveMode /\ canMakeRequest)
    /\ UNCHANGED updateInterval
    /\ IF isLiveMode THEN fetchAndUpdate(FALSE) ELSE UNCHANGED <<requests, issued>>
    /\ toast' = "none"
    /\ UNCHANGED <<lastRequestTime, isLiveMode, isInitialized, hidden, online, fetched>>

\* handleVisibilityChange(), on the event that flips document.hidden
HandleVisibilityChange ==
    /\ hidden' = ~hidden
    /\ appStep(IF hidden THEN "visible" ELSE "hidden", hidden /\ canMakeRequest)
    /\ IF hidden'
       THEN stopLiveMode /\ UNCHANGED <<requests, issued>>
       ELSE startLiveMode /\ fetchAndUpdate(FALSE)
    /\ toast' = "none"
    /\ UNCHANGED <<lastRequestTime, isInitialized, online, fetched>>

\* handleOnline()
HandleOnline ==
    /\ ~online
    /\ online' = TRUE
    /\ appStep("online", canMakeRequest)
    /\ startLiveMode
    /\ fetchAndUpdate(FALSE)
    /\ toast' = "success"
    /\ UNCHANGED <<lastRequestTime, isInitialized, hidden, fetched>>

\* handleOffline()
HandleOffline ==
    /\ online
    /\ online' = FALSE
    /\ appStep("offline", FALSE)
    /\ stopLiveMode
    /\ toast' = "warning"
    /\ UNCHANGED <<lastRequestTime, isInitialized, hidden, requests, issued, fetched>>

\* window.SkyWatch.refresh()
Refresh ==
    /\ appStep("refresh", canMakeRequest)
    /\ fetchAndUpdate(FALSE)
    /\ toast' = "none"
    /\ UNCHANGED <<lastRequestTime, updateInterval, timers, isLiveMode, isInitialized, hidden,
                   online, fetched>>

\* setTimeMode('live'), a click in the visible tab
SetTimeModeLive ==
    /\ ~hidden
    /\ appStep("setTimeMode", FALSE)
    /\ startLiveMode
    /\ toast' = "none"
    /\ UNCHANGED <<lastRequestTime, isInitialized, hidden, online, requests, issued,
                   fetched>>

\* destroy()
Destroy ==
    /\ stopLiveMode
    /\ aircraftMap' = <<>>
    /\ filteredAircraft' = <<>>
    /\ selectedAircraft' = <<>>
    /\ everInserted' = <<>>
    /\ isInitialized' = FALSE
    /\ call' = [op |-> "destroy", batch |-> <<>>, sent |-> FALSE]
    /\ prev' = aircraftMap
    /\ prevSelected' = selectedAircraft
    /\ toast' = "none"
    /\ UNCHANGED <<filters, trails, now, ticks, lastRequestTime, hidden, online, requests,
                   issued, fetched>>

\* the fetch rejects, the status is not ok, or the mapping of the states throws
fetchFails(response) ==
    \/ response.kind # "ok"
    \/ parseAllThrows(response.states)

\* faulty variant: the batch of a fetch that resolves with live mode off is dropped
fetchResolvesIfLive(i, response) ==
    /\ i \in 1..Len(requests)
    /\ requests' = SubSeq(requests, 1, i - 1) \o SubSeq(requests, i + 1, Len(requests))
    /\ lastRequestTime' = IF response.kind = "networkError" THEN lastRequestTime ELSE now
    /\ IF fetchFails(response) \/ ~isLiveMode
       THEN /\ appStep("fetchFailed", FALSE)
            /\ toast' = IF response.kind = "http429" THEN "warning" ELSE "error"
            /\ fetched' = [kind |-> response.kind, states |-> response.states,
                            at |-> requests[i].at]
       ELSE /\ updateAircraft(parseAll(response.states, now))
            /\ toast' = "none"
            /\ fetched' = [kind |-> response.kind, states |-> response.states,
                            at |-> requests[i].at]
    /\ IF requests[i].init
       THEN startLiveMode /\ isInitialized' = TRUE
       ELSE UNCHANGED <<isLiveMode, updateInterval, timers, isInitialized>>
    /\ UNCHANGED <<hidden, online, issued>>

\* faulty variant: a failed fetch is sent again
fetchResolvesRetrying(i, response) ==
    /\ i \in 1..Len(requests)
    /\ lastRequestTime' = IF response.kind = "networkError" THEN lastRequestTime ELSE now
    /\ IF fetchFails(response)
       THEN /\ appStep("fetchFailed", TRUE)
            /\ toast' = IF response.kind = "http429" THEN "warning" ELSE "error"
            /\ fetched' = [kind |-> response.kind, states |-> response.states,
                            at |-> requests[i].at]
            /\ requests' = [requests EXCEPT ![i] = [at |-> now, init |-> @.init]]
            /\ issued' = Append(issued, now)
            /\ UNCHANGED <<isLiveMode, updateInterval, timers, isInitialized>>
       ELSE /\ updateAircraft(parseAll(response.states, now))
            /\ toast' = "none"
            /\ fetched' = [kind |-> response.kind, states |-> response.states,
                            at |-> requests[i].at]
            /\ requests' = SubSeq(requests, 1, i - 1)
                               \o SubSeq(requests, i + 1, Len(requests))
            /\ UNCHANGED issued
            /\ IF requests[i].init
               THEN startLiveMode /\ isInitialized' = TRUE
               ELSE UNCHANGED <<isLiveMode, updateInterval, timers, isInitialized>>
    /\ UNCHANGED <<hidden, online>>

\* the rest of getAllStates and fetchAndUpdate, when fetch number i settles:
\* lastRequestTime is set when a response arrives; a failure is thrown by
\* getAllStates, caught by fetchAndUpdate and shown as a toast; a parsed batch
\* is handed to updateAircraft; init() goes on after its fetchAndUpdate
fetchResolves(i, response) ==
    /\ i \in 1..Len(requests)
    /\ requests' = SubSeq(requests, 1, i - 1) \o SubSeq(requests, i + 1, Len(requests))
    /\ lastRequestTime' = IF response.kind = "networkError" THEN lastRequestTime ELSE now
    /\ IF fetchFails(response)
       THEN /\ appStep("fetchFailed", FALSE)
            /\ toast' = IF response.kind = "http429" THEN "warning" ELSE "error"
            /\ fetched' = [kind |-> response.kind, states |-> response.states,
                            at |-> requests[i].at]
       ELSE /\ updateAircraft(parseAll(response.states, now))
            /\ toast' = "none"
            /\ fetched' = [kind |-> response.kind, states |-> response.states,
                            at |-> requests[i].at]
    /\ IF requests[i].init
       THEN startLiveMode /\ isInitialized' = TRUE
       ELSE UNCHANGED <<isLiveMode, updateInterval, timers, isInitialized>>
    /\ UNCHANGED <<hidden, online, issued>>

\* time passes, but not past the next firing of the interval
PollTick(ms) ==
    /\ \A k \in 1..Len(timers) : now + ms <= timers[k].at
    /\ Tick(ms)

-----------------------------------------------------------------------------
(* The poller and its triggers *)

NextPoll ==
    \/ Len(issued) < MaxFetches /\ AppInit
    \/ Len(issued) < MaxFetches /\ IntervalFires
    \/ Len(issued) < MaxFetches /\ HandleVisibilityChange
    \/ Len(issued) < MaxFetches /\ HandleOnline
    \/ Len(issued) < MaxFetches /\ Refresh
    \/ HandleOffline
    \/ SetTimeModeLive
    \/ \E i \in 1..Len(requests) : \E response \in PollResponses : fetchResolves(i, response)
    \/ ticks < MaxPollTicks /\ \E ms \in PollClockSteps : PollTick(ms)

SpecPoll == Init /\ [][NextPoll]_vars

\* C13: any two fetches are started at least the minimum interval apart.
C13_FetchesMinIntervalApart ==
    \A i, j \in 1..Len(issued) : i < j => issued[j] - issued[i] >= 10000

\* C14: at most one fetch is in flight.
C14_OneFetchInFlight == Len(requests) <= 1

\* C15: while the tab is hidden the interval starts no poll, and the return
\* to the visible tab leaves the interval running and starts a fetch.
C15_SuspendedWhileHidden ==
    /\ (call.op = "interval" /\ hidden) => ~call.sent
    /\ call.op = "visible" => (updateInterval # <<>> /\ call.sent)

\* C16: a fetch that resolves successfully is reconciled into the store,
\* also when the tab was hidden and live mode stopped while it was in flight.
C16_ResolvedBatchIsReconciled ==
    /\ call.op = "fetchFailed" => fetchFails(fetched)
    /\ call.op = "updateAircraft" =>
          \A k \in 1..Len(call.batch) :
              /\ has(aircraftMap, call.batch[k].icao24)
              /\ get(aircraftMap, call.batch[k].icao24)._lastSeen = now

\* a batch was reconciled into the empty store while the tab was hidden and
\* live mode stopped
C16_Witness ==
    /\ call.op = "updateAircraft"
    /\ hidden /\ ~isLiveMode /\ updateInterval = <<>>
    /\ prev = <<>>
    /\ aircraftMap # <<>>

-----------------------------------------------------------------------------
\* C28: a response that is reconciled belongs to a fetch that was started no
\* earlier than the fetch of the response reconciled before it.
C28_ResponsesAppliedInIssueOrder ==
    [][ ( /\ ~fetchFails(fetched)
          /\ Len(requests') < Len(requests)
          /\ call'.op = "updateAircraft" )
        => fetched'.at >= fetched.at ]_vars

-----------------------------------------------------------------------------
(* The starts and stops of the poller *)

NextLifecycle ==
    \/ Len(issued) < MaxLifeFetches /\ AppInit
    \/ Len(issued) < MaxLifeFetches /\ IntervalFires
    \/ Len(issued) < MaxLifeFetches /\ HandleVisibilityChange
    \/ Len(issued) < MaxLifeFetches /\ HandleOnline
    \/ HandleOffline
    \/ SetTimeModeLive
    \/ Destroy
    \/ \E i \in 1..Len(requests) : \E response \in PollResponses : fetchResolves(i, response)
    \/ ticks < MaxLifeTicks /\ \E ms \in PollClockSteps : PollTick(ms)

SpecLifecycle == Init /\ [][NextLifecycle]_vars

\* C29: at most one interval timer is set, and it is the one whose handle
\* the App holds; none is set after a stop (tab hidden, offline, destroy) and
\* exactly one after a start (tab visible, online, live mode chosen).
C29_AtMostOneTimer ==
    /\ Len(timers) <= 1
    /\ timers # <<>> => updateInterval = <<timers[1].id>>
    /\ call.op \in {"hidden", "offline", "destroy"} => timers = <<>>
    /\ call.op \in {"visible", "online", "setTimeMode"} => Len(timers) = 1

\* live mode was chosen again, at a later time, while the App was
\* initialized, visible and online, so while a timer was set: one timer is
\* set, that of this start
C29_Witness ==
    /\ call.op = "setTimeMode"
    /\ isInitialized /\ ~hidden /\ online
    /\ ticks > 0
    /\ Len(timers) = 1
    /\ timers[1].at = now + liveUpdate

\* C30: the step after destroy(), unless it is a call of init, of refresh or
\* of setTimeMode, leaves the store empty, sets no timer and starts no fetch.
C30_QuiescentAfterDestroy ==
    [][ ( /\ call.op = "destroy"
          /\ call'.op \notin {"init", "refresh", "setTimeMode"} )
        => /\ aircraftMap' = <<>>
           /\ timers' = <<>>
           /\ issued' = issued ]_vars

-----------------------------------------------------------------------------
(* The interval timer on its own *)

NextInterval ==
    \/ Len(issued) < MaxIntervalFetches /\ AppInit
    \/ Len(issued) < MaxIntervalFetches /\ IntervalFires
    \/ \E i \in 1..Len(requests) : \E response \in IntervalResponses :
          fetchResolves(i, response)
    \/ ticks < MaxIntervalTicks /\ \E ms \in PollClockSteps : PollTick(ms)

SpecInterval == Init /\ [][NextInterval]_vars

\* C26: in live mode and with the tab visible, a firing of the interval
\* timer starts a fetch, when the fetches before it succeeded and none of them
\* is still in flight (their latency was below the interval).
C26_EveryIntervalTickFetches ==
    ( /\ call.op = "interval"
      /\ isLiveMode /\ ~hidden
      /\ fetched.kind = "ok"
      /\ Len(requests) = IF call.sent THEN 1 ELSE 0 )
    => call.sent

-----------------------------------------------------------------------------
(* The ingestion of fetched batches *)

NextIngest ==
    \/ Len(issued) < MaxFetches /\ Refresh
    \/ \E i \in 1..Len(requests) : \E response \in IngestResponses :
          fetchResolves(i, response)
    \/ \E icao24 \in {IcaoA, IcaoB} : SelectAircraft(icao24)
    \/ ticks < MaxTicks /\ \E ms \in ClockSteps : Tick(ms)

SpecIngest == Init /\ [][NextIngest]_vars

\* C17: a fetch that fails leaves the store, the view and the selection as
\* they were, shows the failure, and starts no other fetch.
C17_FailedFetchChangesNothing ==
    call.op = "fetchFailed" =>
        /\ aircraftMap = prev
        /\ selectedAircraft = prevSelected
        /\ filteredAircraft = applyFilters(prev, filters)
        /\ toast \in {"warning", "error"}
        /\ ~call.sent

\* a fetch failed with HTTP 429 over a store with a selected record that is
\* older than the timeout, and nothing is in flight
C17_Witness ==
    /\ call.op = "fetchFailed"
    /\ fetched.kind = "http429"
    /\ aircraftMap # <<>>
    /\ selectedAircraft # <<>>
    /\ now - get(aircraftMap, selectedAircraft[1])._lastSeen > timeout
    /\ requests = <<>>

\* a vector that parseStateVector should turn into a record
wellFormed(state) ==
    /\ state.length >= 17
    /\ state.icao24 # NullId
    /\ state.latitude # Null /\ state.longitude # Null
    /\ isValidAircraftData(state.latitude, state.longitude,
                           altitudeOf(state), speedOf(state))

\* C18: after a response with a malformed vector, the valid vectors of the
\* same response are in the store and no error is shown.
C18_MalformedVectorDroppedAlone ==
    (call.op \in {"updateAircraft", "fetchFailed"} /\ fetched.kind = "ok") =>
        /\ toast = "none"
        /\ \A i \in 1..Len(fetched.states) :
              wellFormed(fetched.states[i]) =>
                  /\ has(aircraftMap, trim(fetched.states[i].icao24))
                  /\ get(aircraftMap, trim(fetched.states[i].icao24))._lastSeen = now

-----------------------------------------------------------------------------
(* The parser at its bounds *)

NextParse ==
    \/ Len(issued) < MaxFetches /\ Refresh
    \/ \E i \in 1..Len(requests) : \E response \in ParseResponses :
          fetchResolves(i, response)
    \/ ticks < MaxTicks /\ \E ms \in ClockSteps : Tick(ms)

SpecParse == Init /\ [][NextParse]_vars

\* the vector is complete, has a position inside the bounds, and its altitude
\* in feet and its speed in knots are absent or inside the plausible ranges
plausible(state) ==
    /\ state.length >= 17
    /\ state.latitude # Null /\ state.longitude # Null
    /\ 0 - 90 * 1000000 <= state.latitude /\ state.latitude <= 90 * 1000000
    /\ 0 - 180 * 1000000 <= state.longitude /\ state.longitude <= 180 * 1000000
    /\ state.baro_altitude # Null =>
          (0 - 1000 <= metresToFeet(state.baro_altitude)
             /\ metresToFeet(state.baro_altitude) <= 60000)
    /\ state.velocity # Null =>
          (30 <= msToKnots(state.velocity) /\ msToKnots(state.velocity) <= 700)

\* C19: every stored record has a latitude in [-90, 90], a longitude in
\* [-180, 180], an altitude that is null or in [-1000, 60000] ft and a speed
\* that is null or in [30, 700] knots; the batch handed to the store holds
\* exactly the plausible vectors of the response, with their own values.
C19_StoredRecordsPlausible ==
    /\ \A i \in 1..Len(aircraftMap) :
          LET a == aircraftMap[i]
          IN  /\ a.lat # Null /\ 0 - 90 * 1000000 <= a.lat /\ a.lat <= 90 * 1000000
              /\ a.lon # Null /\ 0 - 180 * 1000000 <= a.lon /\ a.lon <= 180 * 1000000
              /\ a.altitude = Null \/ (0 - 1000 <= a.altitude /\ a.altitude <= 60000)
              /\ a.speed = Null \/ (30 <= a.speed /\ a.speed <= 700)
    /\ call.op = "updateAircraft" =>
          /\ Len(call.batch) =
                Cardinality({i \in 1..Len(fetched.states) : plausible(fetched.states[i])})
          /\ \A k \in 1..Len(call.batch) :
                \E i \in 1..Len(fetched.states) :
                    /\ plausible(fetched.states[i])
                    /\ call.batch[k].lat = fetched.states[i].latitude
                    /\ call.batch[k].lon = fetched.states[i].longitude
                    /\ call.batch[k].altitude = altitudeOf(fetched.states[i])
                    /\ call.batch[k].speed = speedOf(fetched.states[i])

\* the vector at the upper bounds was stored, at 60000 ft and 700 knots
C19_Witness ==
    /\ call.op = "updateAircraft"
    /\ fetched.states = <<VecB>>
    /\ \E i \in 1..Len(aircraftMap) :
          /\ aircraftMap[i].altitude = 60000
          /\ aircraftMap[i].speed = 700
          /\ aircraftMap[i].lat = 90 * 1000000
          /\ aircraftMap[i].lon = 180 * 1000000

\* a vector 3 ft above the altitude bound was dropped and the record of its
\* id kept its altitude
C19_WitnessDropped ==
    /\ call.op = "updateAircraft"
    /\ fetched.states # <<>>
    /\ fetched.states[1].baro_altitude = 18289
    /\ call.batch = <<>>
    /\ \E i \in 1..Len(aircraftMap) : aircraftMap[i].altitude = 0 - 997

-----------------------------------------------------------------------------
(* The classifier *)

\* API.isMilitaryAircraft(icao24, callsign), called on its own
Classify(icao24, callsign) ==
    /\ call' = [op |-> "isMilitaryAircraft", batch |-> <<>>, icao24 |-> icao24,
                callsign |-> callsign, result |-> isMilitaryAircraft(icao24, callsign)]
    /\ prev' = aircraftMap
    /\ prevSelected' = selectedAircraft
    /\ UNCHANGED <<aircraftMap, filteredAircraft, selectedAircraft, filters, trails, now,
                   ticks, everInserted>>
    /\ UNCHANGED appVars

NextClassify ==
    \E icao24 \in ClassifyIds : \E callsign \in ClassifyCallsigns :
        Classify(icao24, callsign)

SpecClassify == Init /\ [][NextClassify]_vars

\* a string without its blanks
unpadded(str) == SelectSeq(str, LAMBDA c : c # " ")

RECURSIVE pow16(_)
pow16(k) == IF k = 0 THEN 1 ELSE 16 * pow16(k - 1)

\* the value of an identifier read as a base-16 numeral, -1 when it is not one
base16(id) ==
    LET digits == unpadded(id)
        value[i \in 0..Len(digits)] ==
            IF i = 0 THEN 0
            ELSE value[i - 1] + hexValue(digits[i]) * pow16(Len(digits) - i)
    IN  IF id = NullId \/ digits = <<>> \/ \E i \in 1..Len(digits) : ~isHexDigit(digits[i])
        THEN 0 - 1
        ELSE value[Len(digits)]

\* the identifier lies in a military range
inMilitaryRange(id) ==
    \E k \in 1..Len(icaoRanges) :
        icaoRanges[k].start <= base16(id) /\ base16(id) <= icaoRanges[k].end

\* the callsign, trimmed and in upper case, starts with a military prefix
hasMilitaryCallsign(callsign) ==
    \E k \in 1..Len(callsignPrefixes) :
        LET prefix == callsignPrefixes[k]
            clean  == unpadded(callsign)
        IN  /\ Len(prefix) <= Len(clean)
            /\ \A i \in 1..Len(prefix) : charToUpper(clean[i]) = prefix[i]

\* C20 as stated: the result is true when the identifier lies in a military
\* range, otherwise true when the callsign starts with a military prefix,
\* otherwise false.
C20_RangeThenPrefix ==
    call.op = "isMilitaryAircraft" =>
        (call.result <=> (inMilitaryRange(call.icao24) \/ hasMilitaryCallsign(call.callsign)))

\* C20, amended: for a null or empty identifier the result is false whatever
\* the callsign; for any other identifier it is true when the identifier lies
\* in a military range, otherwise true when the callsign starts with a
\* military prefix, otherwise false.
C20_Classifier ==
    call.op = "isMilitaryAircraft" =>
        IF call.icao24 = <<>> \/ call.icao24 = NullId
        THEN ~call.result
        ELSE call.result
               <=> (inMilitaryRange(call.icao24) \/ hasMilitaryCallsign(call.callsign))

\* the identifier ADF7C9 was classified as military without a callsign
C20_Witness ==
    /\ call.op = "isMilitaryAircraft"
    /\ call.icao24 = <<"A","D","F","7","C","9">>
    /\ call.callsign = NoCallsign
    /\ call.result

\* an identifier outside the ranges was classified as military by its
\* padded lower-case callsign
C20_WitnessCallsign ==
    /\ call.op = "isMilitaryAircraft"
    /\ call.icao24 = IcaoB
    /\ call.callsign = <<" ","n","a","t","o","1">>
    /\ call.result

\* an empty identifier was classified as not military with a military callsign
C20_WitnessEmptyId ==
    /\ call.op = "isMilitaryAircraft"
    /\ call.icao24 = <<>>
    /\ call.callsign = <<"R","C","H","1","2","3">>
    /\ ~call.result

-----------------------------------------------------------------------------
(* The store and the filter engine under the parser's observations *)

Next ==
    \/ \E batch \in Batches : UpdateAircraft(batch)
    \/ \E c \in FilterCalls : SetFilter(c[1], c[2])
    \/ ClearAll
    \/ ticks < MaxTicks /\ \E ms \in ClockSteps : Tick(ms)

Spec == Init /\ [][Next]_vars

-----------------------------------------------------------------------------
(* Claims about the store *)

icaosOf(list) == {list[i].icao24 : i \in 1..Len(list)}
indexOf(icao, map) == CHOOSE i \in 1..Len(map) : map[i].icao24 = icao

\* C2: a reconcile removes a record exactly when its id is absent from the
\* batch and now minus its lastSeen is strictly greater than 120 s.
C2_EvictedIffAbsentAndStale ==
    call.op = "updateAircraft" =>
        \A i \in 1..Len(prev) :
            (prev[i].icao24 \notin keys(aircraftMap))
                <=> ( /\ prev[i].icao24 \notin icaosOf(call.batch)
                      /\ now - prev[i]._lastSeen > 120000 )

\* a reconcile 121 s after the last sighting removed one record and kept
\* another that was last seen exactly 120 s ago
C2_Witness ==
    /\ call.op = "updateAircraft"
    /\ \E i \in 1..Len(prev) :
          /\ prev[i].icao24 \notin keys(aircraftMap)
          /\ now - prev[i]._lastSeen = 121000

\* a reconcile exactly 120 s after the last sighting kept the absent record
C2_WitnessKept ==
    /\ call.op = "updateAircraft"
    /\ \E i \in 1..Len(prev) :
          /\ prev[i].icao24 \in keys(aircraftMap)
          /\ prev[i].icao24 \notin icaosOf(call.batch)
          /\ now - prev[i]._lastSeen = 120000

\* C3: the store holds at most one record per id, also after batches that
\* contain an id more than once.
C3_UniqueIds ==
    \A i, j \in 1..Len(aircraftMap) :
        aircraftMap[i].icao24 = aircraftMap[j].icao24 => i = j

\* a batch with the same id twice was reconciled
C3_Witness ==
    /\ call.op = "updateAircraft"
    /\ Len(call.batch) = 2
    /\ call.batch[1].icao24 = call.batch[2].icao24
    /\ call.batch[1] # call.batch[2]
    /\ call.batch[1].icao24 \in keys(aircraftMap)

C8_WitnessSetFilter ==
    /\ call.op = "setFilter"
    /\ filteredAircraft # <<>>
    /\ Len(filteredAircraft) < Len(aircraftMap)

\* C10 as stated: the view is ordered by the first insertion of each id into
\* the store.
C10_OrderedByFirstInsertion ==
    \A i, j \in 1..Len(filteredAircraft) :
        i < j =>
            (CHOOSE k \in 1..Len(everInserted) : everInserted[k] = filteredAircraft[i])
              < (CHOOSE k \in 1..Len(everInserted) : everInserted[k] = filteredAircraft[j])

\* C10, amended: the view lists the records in the store's insertion order: it is the
\* store's order restricted to the records shown; a reconcile keeps the
\* relative order of the records it keeps and puts the records it inserts
\* after them, in the order of their first appearance in the batch.
C10_InsertionOrder ==
    /\ \A i, j \in 1..Len(filteredAircraft) :
          i < j => indexOf(filteredAircraft[i], aircraftMap)
                     < indexOf(filteredAircraft[j], aircraftMap)
    /\ call.op = "updateAircraft" =>
          \A i, j \in 1..Len(aircraftMap) :
              LET a == aircraftMap[i].icao24
                  b == aircraftMap[j].icao24
                  firstIn(x) == CHOOSE k \in 1..Len(call.batch) :
                                   /\ call.batch[k].icao24 = x
                                   /\ \A m \in 1..(k - 1) : call.batch[m].icao24 # x
              IN  i < j =>
                    \/ a \in keys(prev) /\ b \in keys(prev)
                         /\ indexOf(a, prev) < indexOf(b, prev)
                    \/ a \in keys(prev) /\ b \notin keys(prev)
                    \/ a \notin keys(prev) /\ b \notin keys(prev)
                         /\ firstIn(a) < firstIn(b)

\* a reconcile updated the record inserted first, in a batch that names it
\* after the record inserted second, and the view still lists it first
C10_Witness ==
    /\ call.op = "updateAircraft"
    /\ Len(prev) = 2 /\ Len(aircraftMap) = 2 /\ Len(filteredAircraft) = 2
    /\ Len(call.batch) = 2
    /\ call.batch[1].icao24 = prev[2].icao24
    /\ call.batch[2].icao24 = prev[1].icao24
    /\ filteredAircraft[1] = prev[1].icao24
    /\ aircraftMap[1] # prev[1]

-----------------------------------------------------------------------------
\* C21: every stored record's isMilitary is what the classifier gives for its
\* id and the callsign of its most recent observation; a reconcile whose
\* observation changes the callsign recomputes it, and no operation other
\* than a reconcile changes it.
C21_MilitaryFollowsObservation ==
    /\ \A i \in 1..Len(aircraftMap) :
          aircraftMap[i].isMilitary
            <=> ( \/ inMilitaryRange(aircraftMap[i].icao24)
                  \/ hasMilitaryCallsign(aircraftMap[i].callsign) )
    /\ call.op = "updateAircraft" =>
          \A k \in 1..Len(call.batch) :
              ( /\ has(aircraftMap, call.batch[k].icao24)
                /\ \A m \in (k + 1)..Len(call.batch) :
                      call.batch[m].icao24 # call.batch[k].icao24 )
              => get(aircraftMap, call.batch[k].icao24).callsign = call.batch[k].callsign
    /\ call.op # "updateAircraft" =>
          \A i \in 1..Len(aircraftMap) :
              has(prev, aircraftMap[i].icao24)
                 => get(prev, aircraftMap[i].icao24).isMilitary = aircraftMap[i].isMilitary

\* a record that was military by its callsign was observed without a
\* callsign and is civilian now
C21_Witness ==
    /\ call.op = "updateAircraft"
    /\ \E i \in 1..Len(aircraftMap) :
          /\ has(prev, aircraftMap[i].icao24)
          /\ get(prev, aircraftMap[i].icao24).isMilitary
          /\ get(prev, aircraftMap[i].icao24).callsign = <<"r","c","h","1">>
          /\ aircraftMap[i].callsign = <<"N","/","A">>
          /\ ~aircraftMap[i].isMilitary

\* a filter was set over a store that holds a military and a civilian record
C21_WitnessOtherOperation ==
    /\ call.op = "setFilter"
    /\ \E i, j \in 1..Len(aircraftMap) :
          aircraftMap[i].isMilitary /\ ~aircraftMap[j].isMilitary

-----------------------------------------------------------------------------
(* The store with a selection *)

NextSelection ==
    \/ \E batch \in SelectionBatches : UpdateAircraft(batch)
    \/ \E icao24 \in {IcaoA, IcaoB} : SelectAircraft(icao24)
    \/ DeselectAircraft
    \/ ClearAll
    \/ ticks < MaxTicks /\ \E ms \in ClockSteps : Tick(ms)

SpecSelection == Init /\ [][NextSelection]_vars

\* C11: the selection is empty or a record currently stored; a reconcile that
\* evicts the selected record clears the selection, and selecting an id that
\* is not stored leaves nothing selected.
C11_SelectionIsStored ==
    /\ selectedAircraft = <<>> \/ selectedAircraft[1] \in keys(aircraftMap)
    /\ (call.op = "updateAircraft" /\ prevSelected # <<>>
          /\ prevSelected[1] \notin keys(aircraftMap)) => selectedAircraft = <<>>
    /\ (call.op = "selectAircraft" /\ ~has(aircraftMap, call.icao24))
          => selectedAircraft = <<>>

\* a reconcile evicted the selected record and kept another one
C11_Witness ==
    /\ call.op = "updateAircraft"
    /\ prevSelected # <<>>
    /\ prevSelected[1] \in keys(prev)
    /\ prevSelected[1] \notin keys(aircraftMap)
    /\ aircraftMap # <<>>
    /\ selectedAircraft = <<>>

\* an id that is not stored was selected while another record was selected
C11_WitnessNotStored ==
    /\ call.op = "selectAircraft"
    /\ ~has(aircraftMap, call.icao24)
    /\ prevSelected # <<>>
    /\ selectedAircraft = <<>>

\* C12: after a reconcile, a record that was already stored carries every
\* field of the last observation of its id in the batch, null values
\* included, sits where it sat among the records kept, and has lastSeen
\* equal to the time of the reconcile.
C12_MergeOverwrites ==
    call.op = "updateAircraft" =>
        \A k \in 1..Len(call.batch) :
            LET obs == call.batch[k]
                id  == obs.icao24
            IN  ( /\ has(prev, id)
                  /\ \A m \in (k + 1)..Len(call.batch) : call.batch[m].icao24 # id )
                => /\ has(aircraftMap, id)
                   /\ get(aircraftMap, id).callsign = obs.callsign
                   /\ get(aircraftMap, id).lat = obs.lat
                   /\ get(aircraftMap, id).lon = obs.lon
                   /\ get(aircraftMap, id).altitude = obs.altitude
                   /\ get(aircraftMap, id).speed = obs.speed
                   /\ get(aircraftMap, id).isMilitary = obs.isMilitary
                   /\ obs.hasTrail => get(aircraftMap, id).trail = obs.trail
                   /\ get(aircraftMap, id)._lastSeen = now
                   /\ indexOf(id, aircraftMap) =
                         Cardinality({j \in 1..indexOf(id, prev) :
                                        prev[j].icao24 \in keys(aircraftMap)})

\* a record with a callsign and an altitude was updated by an observation
\* with neither, at a later time, while the record stored before it was evicted
C12_Witness ==
    /\ call.op = "updateAircraft"
    /\ Len(call.batch) = 1
    /\ has(prev, call.batch[1].icao24)
    /\ get(prev, call.batch[1].icao24).altitude = 5000
    /\ get(prev, call.batch[1].icao24)._lastSeen < now
    /\ call.batch[1].altitude = Null
    /\ get(aircraftMap, call.batch[1].icao24).altitude = Null
    /\ get(aircraftMap, call.batch[1].icao24).callsign = <<"N","/","A">>
    /\ Len(aircraftMap) < Len(prev)

-----------------------------------------------------------------------------
(* The counts and the failures of the store *)

NextCore ==
    \/ \E batch \in CoreBatches : UpdateAircraft(batch)
    \/ \E c \in CoreFilterCalls : SetFilter(c[1], c[2])
    \/ ClearAll
    \/ GetStats
    \/ ticks < MaxTicks /\ \E ms \in ClockSteps : Tick(ms)

SpecCore == Init /\ [][NextCore]_vars

\* the ids of the stored records that are military
militaryIds == {icao \in keys(aircraftMap) : get(aircraftMap, icao).isMilitary}

\* C23: the counts that updateAircraft and getStats return agree with the
\* state they leave: total is the number of stored records, military the
\* number of stored records with isMilitary, civilian the rest, and filtered
\* the length of the view.
C23_CountsAgreeWithState ==
    /\ (call.op = "updateAircraft" /\ ~call.threw) =>
          /\ call.result.total = Cardinality(keys(aircraftMap))
          /\ call.result.military = Cardinality(militaryIds)
          /\ call.result.filtered = Len(filteredAircraft)
    /\ call.op = "getStats" =>
          /\ call.result.total = Cardinality(keys(aircraftMap))
          /\ call.result.military = Cardinality(militaryIds)
          /\ call.result.civilian = Cardinality(keys(aircraftMap) \ militaryIds)
          /\ call.result.filtered = Len(filteredAircraft)

\* getStats was called over a store with a military and a civilian record of
\* which the view shows one
C23_Witness ==
    /\ call.op = "getStats"
    /\ call.result.total = 2
    /\ call.result.military = 1
    /\ call.result.civilian = 1
    /\ call.result.filtered = 1

\* a reconcile evicted a record and returned the counts of what is left
C23_WitnessUpdate ==
    /\ call.op = "updateAircraft"
    /\ ~call.threw
    /\ Len(prev) = 2
    /\ call.result.total = 1
    /\ call.result.military = 0
    /\ call.result.filtered = 1

\* C24: updateAircraft and setFilter never fail, and leave a view of stored
\* records.
C24_CoreNeverFails ==
    call.op \in {"updateAircraft", "setFilter"} =>
        /\ ~call.threw
        /\ Range(filteredAircraft) \subseteq keys(aircraftMap)

-----------------------------------------------------------------------------
(* The filter engine under every filter state, with a selection *)

NextFilter ==
    \/ \E batch \in FilterBatches : UpdateAircraft(batch)
    \/ \E c \in AllFilterCalls : SetFilter(c[1], c[2])
    \/ \E icao24 \in {IcaoA, IcaoB} : SelectAircraft(icao24)
    \/ DeselectAircraft

SpecFilter == Init /\ [][NextFilter]_vars

\* q occurs in s, letter case ignored
occursIgnoringCase(q, s) ==
    \E off \in 0..(Len(s) - Len(q)) :
        \A k \in 1..Len(q) : charToLower(s[off + k]) = charToLower(q[k])

C9_WitnessNoAltitude ==
    /\ Len(aircraftMap) = 2
    /\ Len(filteredAircraft) = 2
    /\ filters.searchQuery = <<"d","l","h">>
    /\ \E i \in 1..2 : aircraftMap[i].altitude = Null
    /\ \E i \in 1..2 : aircraftMap[i].altitude = filters.maxAltitude

\* both flags are off over a store that is not empty
C9_WitnessFlagsOff ==
    /\ ~filters.military /\ ~filters.civilian
    /\ aircraftMap # <<>>
    /\ filteredAircraft = <<>>

-----------------------------------------------------------------------------
(* The altitude sliders *)

NextSliders ==
    \/ \E batch \in FilterBatches : UpdateAircraft(batch)
    \/ \E id \in {MinSlider, MaxSlider} : \E value \in SliderValues :
          HandleAltitudeChange(id, value)

SpecSliders == Init /\ [][NextSliders]_vars

\* C27: after a slider was moved, minAltitude (for the min-altitude slider)
\* or maxAltitude (for the max-altitude slider) is the slider's value, and
\* the view shows no record with an altitude beyond that bound.
C27_SliderSetsBound ==
    call.op = "handleAltitudeChange" =>
        /\ call.slider = MinSlider =>
              /\ filters.minAltitude = call.value
              /\ \A i \in 1..Len(aircraftMap) :
                    (aircraftMap[i].altitude # Null /\ aircraftMap[i].altitude < call.value)
                       => aircraftMap[i].icao24 \notin Range(filteredAircraft)
        /\ call.slider = MaxSlider =>
              /\ filters.maxAltitude = call.value
              /\ \A i \in 1..Len(aircraftMap) :
                    (aircraftMap[i].altitude # Null /\ aircraftMap[i].altitude > call.value)
                       => aircraftMap[i].icao24 \notin Range(filteredAircraft)

-----------------------------------------------------------------------------
(* The trail tracker *)

NextTrail ==
    \/ \E batch \in TrailBatches :
          /\ UpdateAircraft(batch)
          /\ \A i \in 1..Len(aircraftMap') : Len(aircraftMap'[i].trail) <= MaxTrail
    \/ \E enabled \in BOOLEAN : SetTrails(enabled)
    \/ ticks < MaxTicks /\ \E ms \in TrailClockSteps : Tick(ms)

SpecTrail == Init /\ [][NextTrail]_vars

\* Two sequential ingests into an empty store: every operation starts from a
\* store that was empty before the operation preceding it.
NextTwoIngests ==
    /\ prev = <<>>
    /\ \/ \E batch \in TrailBatches : UpdateAircraft(batch)
       \/ \E enabled \in BOOLEAN : SetTrails(enabled)
       \/ ticks < MaxTicks /\ \E ms \in ClockSteps : Tick(ms)

SpecTwoIngests == Init /\ [][NextTwoIngests]_vars

\* the last operation was updateAircraft, with trails enabled, of one
\* observation for an id that was already stored
updatedOne ==
    /\ call.op = "updateAircraft"
    /\ trails
    /\ Len(call.batch) = 1
    /\ has(prev, call.batch[1].icao24)
    /\ has(aircraftMap, call.batch[1].icao24)

before == get(prev, call.batch[1].icao24)
after  == get(aircraftMap, call.batch[1].icao24)
observation == call.batch[1]

\* great-circle distance in mm between two latitudes of the meridian Lon0
kmApart(lat1, lat2) == calculateDistance(lat1, Lon0, lat2, Lon0)

\* C1: after an update with a parser-made observation whose position is at
\* least 0.1 km from the last trail point (or that finds no trail point yet),
\* the stored trail ends with a point at the new position.
C1_TrailEndsAtNewPosition ==
    ( /\ updatedOne
      /\ observation.hasTrail
      /\ \/ before.trail = <<>>
         \/ kmApart(before.trail[Len(before.trail)].lat, observation.lat) >= 100000 )
    => /\ after.trail # <<>>
       /\ after.trail[Len(after.trail)].lat = observation.lat
       /\ after.trail[Len(after.trail)].lon = observation.lon

\* C4: on an update of an existing record with trails enabled (its trail
\* points all fresh), exactly one point is appended when the previous position
\* and the new one are at least 0.1 km apart, and nothing is appended otherwise.
C4_AppendIffMoved ==
    ( /\ updatedOne
      /\ \A k \in 1..Len(before.trail) : now - before.trail[k].time < trailDuration )
    => IF kmApart(before.lat, observation.lat) >= 100000
       THEN /\ Len(after.trail) = Len(before.trail) + 1
            /\ SubSeq(after.trail, 1, Len(before.trail)) = before.trail
            /\ after.trail[Len(after.trail)].lat = observation.lat
       ELSE after.trail = before.trail

\* C5: after two sequential ingests of one id into an empty store, the trail
\* has 1 point when the positions are 0.05 km apart and 2 when they are
\* 0.5 km apart.
C5_TwoIngestsTrailLength ==
    ( /\ updatedOne
      /\ before.lat = Lat0 )
    => /\ observation.lat = Lat50  => Len(after.trail) = 1
       /\ observation.lat = Lat500 => Len(after.trail) = 2

\* C7: at any time, no point of a stored trail is older than trailDuration.
C7_NoOldTrailPoint ==
    \A i \in 1..Len(aircraftMap) :
        \A k \in 1..Len(aircraftMap[i].trail) :
            now - aircraftMap[i].trail[k].time <= 600000

-----------------------------------------------------------------------------
\* the store without the lastSeen of its records
withoutLastSeen(map) == [i \in 1..Len(map) |-> [map[i] EXCEPT !._lastSeen = 0]]

\* C22: a reconcile of the batch that was reconciled just before, at the same
\* time, leaves the store apart from lastSeen, the view and the selection as
\* the first reconcile left them.
C22_ReconcileTwiceIsOnce ==
    [][ ( /\ call.op = "updateAircraft"
          /\ call'.op = "updateAircraft"
          /\ call'.batch = call.batch
          /\ now' = now )
        => /\ withoutLastSeen(aircraftMap') = withoutLastSeen(aircraftMap)
           /\ filteredAircraft' = filteredAircraft
           /\ selectedAircraft' = selectedAircraft ]_vars

\* C25: after a reconcile with trails enabled, the trail of every record
\* that was stored and is in the batch has no point older than trailDuration,
\* whether or not a point was appended.
C25_ObservedTrailIsPruned ==
    (call.op = "updateAircraft" /\ trails) =>
        \A k \in 1..Len(call.batch) :
            ( /\ has(prev, call.batch[k].icao24)
              /\ has(aircraftMap, call.batch[k].icao24) )
            => \A p \in 1..Len(get(aircraftMap, call.batch[k].icao24).trail) :
                  now - get(aircraftMap, call.batch[k].icao24).trail[p].time <= 600000

-----------------------------------------------------------------------------
(* The trail tracker at trailMaxPoints *)

NextCap == \E aircraft \in CapObservations : UpdateAircraft(<<aircraft>>)

SpecCap == Init /\ [][NextCap]_vars

\* C6: no stored trail has more than trailMaxPoints (100) points.
C6_TrailAtMostMaxPoints ==
    \A i \in 1..Len(aircraftMap) : Len(aircraftMap[i].trail) <= 100

\* a point was appended to a trail that already had 100 points
C6_Witness ==
    /\ updatedOne
    /\ Len(before.trail) = 100
    /\ Len(after.trail) = 100
    /\ after.trail[100].lat # before.trail[100].lat
    /\ SubSeq(after.trail, 1, 99) = SubSeq(before.trail, 2, 100)

====
